---- MODULE Spec2Model ----
(***************************************************************************)
(* A model of the recurse-pair Lisp reader: the character-driven           *)
(* _Parser.parse state machine of parse.py, the parse driver, and the      *)
(* three callback sets (AstCallback, EvalCallback, TypecheckCallback).     *)
(*                                                                         *)
(* A behaviour is one session over one input text: parse_ast(text), then   *)
(* eval_lisp(text), then typecheck_lisp(text), each from a fresh cursor.   *)
(* A character is a one-character string; a Python str is a sequence of    *)
(* characters.                                                             *)
(***************************************************************************)
EXTENDS Integers, Sequences, FiniteSets, TLC

(***************************************************************************)
(* Character classes (parse.py)                                            *)
(***************************************************************************)
DIGITS == {"0", "1", "2", "3", "4", "5", "6", "7", "8", "9"}

SYMBOL_CHARACTERS ==
    {"a", "b", "c", "d", "e", "f", "g", "h", "i", "j", "k", "l", "m",
     "n", "o", "p", "q", "r", "s", "t", "u", "v", "w", "x", "y", "z",
     "A", "B", "C", "D", "E", "F", "G", "H", "I", "J", "K", "L", "M",
     "N", "O", "P", "Q", "R", "S", "T", "U", "V", "W", "X", "Y", "Z",
     "*", "-", "+", "/"}

\* The three characters the source writes as '"', "'" and "\\".
DQ == "\""

SQ == "'"

BS == "\\"

\* The two tokens that read as booleans.
True == <<"T", "r", "u", "e">>

False == <<"F", "a", "l", "s", "e">>

(***************************************************************************)
(* Python values.  One record shape for every value, so that any two       *)
(* values can be compared:                                                 *)
(*   k = "int"    n             an int                                     *)
(*   k = "float"  n, e          the float n / 10^e (e minimal)             *)
(*   k = "str"    s             a str, s its characters                    *)
(*   k = "list"   c             a list, c its elements                     *)
(*   k = "fn"     s = <<name>>  a function object                          *)
(*   k = "type"   s = <<name>>  one of the classes int, float, str, bool   *)
(*   k = "alias"  c = <<d>>     the types.GenericAlias list[d]             *)
(*   k = "unpacked" c = <<d>>   the element *list[d] of iter(list[d])      *)
(*   k = "bool"   n in {0, 1}   a bool                                     *)
(*   k = "none"                 no value                                   *)
(***************************************************************************)
MkVal(k, n, e, s, c) == [k |-> k, n |-> n, e |-> e, s |-> s, c |-> c]

NoValue == MkVal("none", 0, 0, <<>>, <<>>)

MkInt(n) == MkVal("int", n, 0, <<>>, <<>>)

RECURSIVE Normalize(_, _)
Normalize(n, e) ==
    IF e > 0 /\ n % 10 = 0 THEN Normalize(n \div 10, e - 1) ELSE <<n, e>>

MkFloat(n, e) ==
    LET ne == Normalize(n, e) IN MkVal("float", ne[1], ne[2], <<>>, <<>>)

MkStr(s) == MkVal("str", 0, 0, s, <<>>)

MkList(c) == MkVal("list", 0, 0, <<>>, c)

MkFn(name) == MkVal("fn", 0, 0, <<name>>, <<>>)

MkType(name) == MkVal("type", 0, 0, <<name>>, <<>>)

MkAlias(d) == MkVal("alias", 0, 0, <<>>, <<d>>)

MkUnpacked(d) == MkVal("unpacked", 0, 0, <<>>, <<d>>)

MkBool(b) == MkVal("bool", IF b THEN 1 ELSE 0, 0, <<>>, <<>>)

\* The outcome of a call: a returned value, or the exception it raised.
Returns(v) == [ok |-> TRUE, v |-> v, err |-> "none"]

Raises(err) == [ok |-> FALSE, v |-> NoValue, err |-> err]

RECURSIVE Pow10(_)
Pow10(e) == IF e = 0 THEN 1 ELSE 10 * Pow10(e - 1)

DigitValue(d) ==
    CASE d = "0" -> 0 [] d = "1" -> 1 [] d = "2" -> 2 [] d = "3" -> 3
      [] d = "4" -> 4 [] d = "5" -> 5 [] d = "6" -> 6 [] d = "7" -> 7
      [] d = "8" -> 8 [] d = "9" -> 9

DigitChar(n) ==
    CASE n = 0 -> "0" [] n = 1 -> "1" [] n = 2 -> "2" [] n = 3 -> "3"
      [] n = 4 -> "4" [] n = 5 -> "5" [] n = 6 -> "6" [] n = 7 -> "7"
      [] n = 8 -> "8" [] n = 9 -> "9"

\* int(value) for a run of decimal digits.
RECURSIVE PyInt(_)
PyInt(value) ==
    IF value = <<>> THEN 0
    ELSE 10 * PyInt(SubSeq(value, 1, Len(value) - 1))
         + DigitValue(value[Len(value)])

IndexOf(value, ch) ==
    IF \E i \in 1..Len(value) : value[i] = ch
    THEN CHOOSE i \in 1..Len(value) :
             value[i] = ch /\ \A j \in 1..(i - 1) : value[j] # ch
    ELSE 0

\* float(value) for digit+ "." digit*, kept as the exact decimal it denotes.
PyFloat(value) ==
    LET dot == IndexOf(value, ".")
        whole == SubSeq(value, 1, dot - 1)
        frac == SubSeq(value, dot + 1, Len(value))
    IN MkFloat(PyInt(whole \o frac), Len(frac))

RECURSIVE IntDigits(_)
IntDigits(n) ==
    IF n < 10 THEN <<DigitChar(n)>>
    ELSE IntDigits(n \div 10) \o <<DigitChar(n % 10)>>

RECURSIVE PadDigits(_, _)
PadDigits(ds, e) == IF Len(ds) >= e THEN ds ELSE PadDigits(<<"0">> \o ds, e)

\* repr(x) of a float: at least one digit on each side of the point.
FloatDigits(n, e) ==
    IF e = 0 THEN IntDigits(n) \o <<".", "0">>
    ELSE IntDigits(n \div Pow10(e)) \o <<".">>
         \o PadDigits(IntDigits(n % Pow10(e)), e)

IsIn(ch, s) == \E i \in 1..Len(s) : s[i] = ch

\* repr(value) of a str of printable characters: single quotes, unless the
\* text holds a single quote and no double quote; the delimiter and the
\* backslash are escaped.
\* a repr that always delimits with single quotes
ReprQuoteSingle(value) == SQ

ReprQuote(value) == IF IsIn(SQ, value) /\ ~IsIn(DQ, value) THEN DQ ELSE SQ

RECURSIVE ReprBody(_, _)
ReprBody(value, q) ==
    IF value = <<>> THEN <<>>
    ELSE (IF Head(value) = q \/ Head(value) = BS
          THEN <<BS, Head(value)>> ELSE <<Head(value)>>)
         \o ReprBody(Tail(value), q)

PyReprStr(value) ==
    LET q == ReprQuote(value) IN <<q>> \o ReprBody(value, q) \o <<q>>

(***************************************************************************)
(* str(x) and repr(x)                                                      *)
(***************************************************************************)
ClassName(name) ==
    CASE name = "int" -> <<"i", "n", "t">>
      [] name = "float" -> <<"f", "l", "o", "a", "t">>
      [] name = "str" -> <<"s", "t", "r">>
      [] name = "bool" -> <<"b", "o", "o", "l">>

ClassText(name) ==
    <<"<", "c", "l", "a", "s", "s", " ", SQ>> \o ClassName(name) \o <<SQ, ">">>

RECURSIVE PyRepr(_)
RECURSIVE ReprItems(_)
RECURSIVE AliasArgText(_)
\* repr of a function names its address; the text is kept as one opaque
\* character, which no conversion accepts as a number.
PyRepr(v) ==
    CASE v.k = "int" -> IntDigits(v.n)
      [] v.k = "float" -> FloatDigits(v.n, v.e)
      [] v.k = "bool" -> IF v.n = 1 THEN <<"T", "r", "u", "e">>
                                   ELSE <<"F", "a", "l", "s", "e">>
      [] v.k = "str" -> PyReprStr(v.s)
      [] v.k = "list" -> <<"[">> \o ReprItems(v.c) \o <<"]">>
      [] v.k = "fn" -> <<"<function>">>
      [] v.k = "type" -> ClassText(v.s[1])
      [] v.k = "alias" ->
            <<"l", "i", "s", "t", "[">> \o AliasArgText(v.c[1]) \o <<"]">>
      [] v.k = "unpacked" ->
            <<"*", "l", "i", "s", "t", "[">> \o AliasArgText(v.c[1]) \o <<"]">>
      [] OTHER -> <<"N", "o", "n", "e">>

ReprItems(c) ==
    IF c = <<>> THEN <<>>
    ELSE IF Len(c) = 1 THEN PyRepr(c[1])
    ELSE PyRepr(c[1]) \o <<",", " ">> \o ReprItems(Tail(c))

AliasArgText(d) == IF d.k = "type" THEN ClassName(d.s[1]) ELSE PyRepr(d)

PyStr(v) == IF v.k = "str" THEN v.s ELSE PyRepr(v)

(***************************************************************************)
(* ==, hash and truth of values                                            *)
(***************************************************************************)
IsNumber(v) == v.k \in {"int", "float", "bool"}

RECURSIVE PyEq(_, _)
PyEq(a, b) ==
    IF IsNumber(a) /\ IsNumber(b)
    THEN a.n * Pow10(b.e) = b.n * Pow10(a.e)
    ELSE IF a.k = b.k /\ a.k \in {"list", "alias", "unpacked"}
    THEN /\ Len(a.c) = Len(b.c)
         /\ \A i \in 1..Len(a.c) : PyEq(a.c[i], b.c[i])
    ELSE a = b

Hashable(v) == v.k # "list"

Truthy(v) ==
    CASE IsNumber(v) -> v.n # 0
      [] v.k = "str" -> v.s # <<>>
      [] v.k = "list" -> v.c # <<>>
      [] OTHER -> TRUE

AllDigits(s) == s # <<>> /\ \A i \in 1..Len(s) : s[i] \in DIGITS

\* digit+ "." digit+ , the only float text str() produces here
IsDecimalText(s) ==
    LET dot == IndexOf(s, ".")
    IN /\ dot > 1
       /\ dot < Len(s)
       /\ AllDigits(SubSeq(s, 1, dot - 1))
       /\ AllDigits(SubSeq(s, dot + 1, Len(s)))

(***************************************************************************)
(* The functions of eval.py's SYMBOL_TABLE                                 *)
(***************************************************************************)
Max(a, b) == IF a >= b THEN a ELSE b

\* operator.add; the sum of floats is the exact decimal sum, its rounding to
\* a double is not modelled
operator_add(args) ==
    IF Len(args) # 2 THEN Raises("TypeError")
    ELSE LET a == args[1]
             b == args[2]
             e == Max(a.e, b.e)
         IN CASE a.k = "int" /\ b.k = "int" -> Returns(MkInt(a.n + b.n))
              [] a.k \in {"int", "float"} /\ b.k \in {"int", "float"}
                 /\ "float" \in {a.k, b.k} ->
                    Returns(MkFloat(a.n * Pow10(e - a.e) + b.n * Pow10(e - b.e), e))
              [] a.k = "str" /\ b.k = "str" -> Returns(MkStr(a.s \o b.s))
              [] a.k = "list" /\ b.k = "list" -> Returns(MkList(a.c \o b.c))
              [] OTHER -> Raises("TypeError")

\* operator.getitem
operator_getitem(args) ==
    IF Len(args) # 2 THEN Raises("TypeError")
    ELSE LET a == args[1]
             b == args[2]
         IN CASE a.k = "list" /\ b.k = "int" ->
                    IF b.n < Len(a.c) THEN Returns(a.c[b.n + 1])
                    ELSE Raises("IndexOutOfRange")
              [] a.k = "str" /\ b.k = "int" ->
                    IF b.n < Len(a.s) THEN Returns(MkStr(<<a.s[b.n + 1]>>))
                    ELSE Raises("IndexOutOfRange")
              [] OTHER -> Raises("TypeError")

\* lambda *args: list(args)
list_lambda(args) == Returns(MkList(args))

(***************************************************************************)
(* The functions of typecheck.py's SYMBOL_TABLE                            *)
(***************************************************************************)
add_type(args) ==
    IF Len(args) # 2 THEN Raises("TypeError")
    ELSE IF ~PyEq(args[1], MkType("int")) THEN Raises("AssertionError")
    ELSE IF ~PyEq(args[2], MkType("int")) THEN Raises("AssertionError")
    ELSE Returns(MkType("int"))

\* nth_type without the assertion on the index
nth_type_any_index(args) ==
    IF Len(args) # 2 THEN Raises("TypeError")
    ELSE IF args[1].k \notin {"alias", "unpacked"} THEN Raises("AssertionError")
    ELSE Returns(args[1].c[1])

nth_type(args) ==
    IF Len(args) # 2 THEN Raises("TypeError")
    ELSE IF ~PyEq(args[2], MkType("int")) THEN Raises("AssertionError")
    ELSE IF args[1].k \notin {"alias", "unpacked"} THEN Raises("AssertionError")
    ELSE Returns(args[1].c[1])

\* list_type without its assertion
list_type_unchecked(args) ==
    IF \E i \in 1..Len(args) : ~Hashable(args[i]) THEN Raises("TypeError")
    ELSE IF args = <<>> THEN Raises("AssertionError")
    ELSE Returns(MkAlias(args[1]))

list_type(args) ==
    IF \E i \in 1..Len(args) : ~Hashable(args[i]) THEN Raises("TypeError")
    ELSE IF ~(/\ Len(args) >= 1
              /\ \A i \in 1..Len(args) : PyEq(args[i], args[1]))
    THEN Raises("AssertionError")
    ELSE Returns(MkAlias(args[1]))

(***************************************************************************)
(* Calling a class or a generic alias, which Python allows wherever it     *)
(* allows calling a function: int(...), float(...), str(...), bool(...),   *)
(* and list[d](...), which is list(...).                                   *)
(***************************************************************************)
int_class(args) ==
    CASE Len(args) = 0 -> Returns(MkInt(0))
      [] Len(args) = 1 ->
            (CASE args[1].k \in {"int", "bool"} -> Returns(MkInt(args[1].n))
               [] args[1].k = "float" ->
                     Returns(MkInt(args[1].n \div Pow10(args[1].e)))
               [] args[1].k = "str" ->
                     IF AllDigits(args[1].s) THEN Returns(MkInt(PyInt(args[1].s)))
                     ELSE Raises("InvalidLiteral")
               [] OTHER -> Raises("TypeError"))
      [] Len(args) = 2 ->
            \* int(x, base): x a str and base an int, here always 0
            IF args[1].k = "str" /\ args[2].k = "int" /\ args[2].n = 0
            THEN IF AllDigits(args[1].s) /\ PyInt(args[1].s) = 0
                 THEN Returns(MkInt(0))
                 ELSE Raises("InvalidLiteral")
            ELSE Raises("TypeError")
      [] OTHER -> Raises("TypeError")

float_class(args) ==
    CASE Len(args) = 0 -> Returns(MkFloat(0, 0))
      [] Len(args) = 1 ->
            (CASE IsNumber(args[1]) -> Returns(MkFloat(args[1].n, args[1].e))
               [] args[1].k = "str" ->
                     IF AllDigits(args[1].s)
                     THEN Returns(MkFloat(PyInt(args[1].s), 0))
                     ELSE IF IsDecimalText(args[1].s)
                     THEN Returns(PyFloat(args[1].s))
                     ELSE Raises("InvalidLiteral")
               [] OTHER -> Raises("TypeError"))
      [] OTHER -> Raises("TypeError")

\* str(object, encoding, errors) decodes bytes only; there are no bytes here.
str_class(args) ==
    CASE Len(args) = 0 -> Returns(MkStr(<<>>))
      [] Len(args) = 1 -> Returns(MkStr(PyStr(args[1])))
      [] OTHER -> Raises("TypeError")

bool_class(args) ==
    CASE Len(args) = 0 -> Returns(MkBool(FALSE))
      [] Len(args) = 1 -> Returns(MkBool(Truthy(args[1])))
      [] OTHER -> Raises("TypeError")

list_class(args) ==
    CASE Len(args) = 0 -> Returns(MkList(<<>>))
      [] Len(args) = 1 ->
            (CASE args[1].k = "list" -> Returns(MkList(args[1].c))
               [] args[1].k = "str" ->
                     Returns(MkList([i \in 1..Len(args[1].s) |->
                                         MkStr(<<args[1].s[i]>>)]))
               [] args[1].k = "alias" ->
                     Returns(MkList(<<MkUnpacked(args[1].c[1])>>))
               [] OTHER -> Raises("TypeError"))
      [] OTHER -> Raises("TypeError")

\* fn(*args)
Call(fn, args) ==
    CASE fn.k = "fn" ->
            (CASE fn.s[1] = "list_lambda" -> list_lambda(args)
               [] fn.s[1] = "operator.add" -> operator_add(args)
               [] fn.s[1] = "operator.getitem" -> operator_getitem(args)
               [] fn.s[1] = "add_type" -> add_type(args)
               [] fn.s[1] = "nth_type" -> nth_type(args)
               [] fn.s[1] = "list_type" -> list_type(args))
      [] fn.k = "type" ->
            (CASE fn.s[1] = "int" -> int_class(args)
               [] fn.s[1] = "float" -> float_class(args)
               [] fn.s[1] = "str" -> str_class(args)
               [] fn.s[1] = "bool" -> bool_class(args))
      [] fn.k \in {"alias", "unpacked"} -> list_class(args)
      [] OTHER -> Raises("TypeError")

(***************************************************************************)
(* The symbol tables and the three callback sets                           *)
(***************************************************************************)
EvalSYMBOL_TABLE ==
    (<<"l", "i", "s", "t">> :> MkFn("list_lambda"))
    @@ (<<"a", "d", "d">> :> MkFn("operator.add"))
    @@ (<<"n", "t", "h">> :> MkFn("operator.getitem"))
    @@ (<<"+">> :> MkFn("operator.add"))

TypecheckSYMBOL_TABLE ==
    (<<"l", "i", "s", "t">> :> MkFn("list_type"))
    @@ (<<"a", "d", "d">> :> MkFn("add_type"))
    @@ (<<"n", "t", "h">> :> MkFn("nth_type"))

\* on_symbol that leaves an unknown name for the application to reject
LookupSymbolDeferred(table, value) ==
    IF value \notin DOMAIN table THEN Returns(MkStr(value))
    ELSE Returns(table[value])

\* on_symbol of EvalCallback and of TypecheckCallback, by its table
LookupSymbol(table, value) ==
    IF value \notin DOMAIN table THEN Raises("UnknownSymbol")
    ELSE Returns(table[value])

\* an on_list that takes the empty list for a value
ApplyListNil(values) ==
    IF values = <<>> THEN Returns(MkList(<<>>))
    ELSE Call(Head(values), Tail(values))

\* on_list of EvalCallback and of TypecheckCallback: fn, *args = values
ApplyList(values) ==
    IF values = <<>> THEN Raises("NotEnoughValues")
    ELSE Call(Head(values), Tail(values))

\* value is the int that int(value) gave
on_integer(mode, value) ==
    CASE mode = "ast" -> Returns(MkInt(value))
      [] mode = "eval" -> Returns(MkInt(value))
      [] mode = "typecheck" -> Returns(MkType("int"))

\* value is the float that float(value) gave
on_float(mode, value) ==
    CASE mode = "ast" -> Returns(value)
      [] mode = "eval" -> Returns(value)
      [] mode = "typecheck" -> Returns(MkType("float"))

on_boolean(mode, value) ==
    CASE mode = "ast" -> Returns(MkBool(value))
      [] mode = "eval" -> Returns(MkBool(value))
      [] mode = "typecheck" -> Returns(MkType("bool"))

\* on_string of AstCallback giving the content instead of its repr
on_string_raw(mode, value) ==
    CASE mode = "ast" -> Returns(MkStr(value))
      [] mode = "eval" -> Returns(MkStr(value))
      [] mode = "typecheck" -> Returns(MkType("str"))

on_string(mode, value) ==
    CASE mode = "ast" -> Returns(MkStr(PyReprStr(value)))
      [] mode = "eval" -> Returns(MkStr(value))
      [] mode = "typecheck" -> Returns(MkType("str"))

on_symbol(mode, value) ==
    CASE mode = "ast" -> Returns(MkStr(value))
      [] mode = "eval" -> LookupSymbol(EvalSYMBOL_TABLE, value)
      [] mode = "typecheck" -> LookupSymbol(TypecheckSYMBOL_TABLE, value)

on_list(mode, values) ==
    CASE mode = "ast" -> Returns(MkList(values))
      [] mode = "eval" -> ApplyList(values)
      [] mode = "typecheck" -> ApplyList(values)

(***************************************************************************)
(* State                                                                   *)
(*   text        the input of the session                                  *)
(*   driver      which of parse_ast, eval_lisp, typecheck_lisp is running  *)
(*   pc          "parsing": inside _Parser.parse; "returned": parse() holds*)
(*               res and is about to test the cursor; "done" / "failed":   *)
(*               the driver returned / raised                              *)
(*   characters  the cursor, the list every _Parser.parse call shares      *)
(*   stack       the active _Parser instances, the innermost last; once an *)
(*               exception is raised, the instances it unwinds             *)
(*   res         the local res of parse()                                  *)
(*   out         the outcome of each driver                                *)
(*   calls       history: the callback invocations of the running driver   *)
(*   nextId      history: the number of the next _Parser instance          *)
(*   removed     history: how often each position of text was popped       *)
(*   pushes      history: how many characters were pushed back             *)
(***************************************************************************)
VARIABLES text, driver, pc, characters, stack, res, out, calls, nextId,
          removed, pushes

vars == <<text, driver, pc, characters, stack, res, out, calls, nextId,
          removed, pushes>>

Drivers == <<"ast", "eval", "typecheck">>

mode == Drivers[driver]

\* A fresh _Parser(callbacks): state "initial".  eaten and start are
\* history: the characters this instance has popped and not pushed back, and
\* the number of characters of the text before the cursor when the instance
\* was made.
NewParser(id, start) ==
    [id |-> id, state |-> "initial", value |-> <<>>, quote_type |-> "",
     values |-> <<>>, eaten |-> <<>>, start |-> start]

NoOutcome == [st |-> "none", v |-> NoValue, err |-> "none"]

Top == stack[Len(stack)]

\* the character characters.pop(0) gives
char == Head(characters)

\* The position in text of the character at the front of the cursor.
Position == Len(text) - Len(characters) + 1

\* characters.pop(0), by the instance at the top of the stack
Popped(n) ==
    [i \in 1..Len(text) |->
        IF i >= Position /\ i < Position + n THEN removed[i] + 1 ELSE removed[i]]

\* self.state = <new state>, after one character was popped
Goto(state, value, quote_type) ==
    /\ stack' = [stack EXCEPT ![Len(stack)] =
                    [@ EXCEPT !.state = state, !.value = value,
                              !.quote_type = quote_type,
                              !.eaten = Append(@, char)]]
    /\ characters' = Tail(characters)
    /\ removed' = Popped(1)
    /\ UNCHANGED <<text, driver, pc, res, out, calls, nextId, pushes>>

\* raise: the exception leaves every active parse call and the driver
Raise(kind, chars, n) ==
    /\ pc' = "failed"
    /\ out' = [out EXCEPT ![mode] = [st |-> "fail", v |-> NoValue, err |-> kind]]
    /\ characters' = chars
    /\ removed' = Popped(n)
    /\ UNCHANGED <<text, driver, stack, res, calls, nextId, pushes>>

\* the callback invoked a second time for the same unit
FireTwice(cb, r) ==
    LET call == [cb |-> cb, unit |-> Top.id, state |-> Top.state,
                 value |-> Top.value, values |-> Top.values, ret |-> r,
                 quote_type |-> Top.quote_type, start |-> Top.start,
                 path |-> [i \in 1..Len(stack) |-> stack[i].id]]
    IN Append(Append(calls, call), call)

\* One invocation self.callbacks.on_xxx(arg) by the instance at the top of
\* the stack, as the history records it; path is the instances whose parse
\* calls are active, outermost first.
Fire(cb, r) ==
    Append(calls, [cb |-> cb, unit |-> Top.id, state |-> Top.state,
                   value |-> Top.value, values |-> Top.values, ret |-> r,
                   quote_type |-> Top.quote_type, start |-> Top.start,
                   path |-> [i \in 1..Len(stack) |-> stack[i].id]])

\* the child's result put in front of the earlier ones
PrependValue(values, v) == <<v>> \o values

\* values.append(<the child's result>)
AppendValue(values, v) == Append(values, v)

\* return self.callbacks.on_xxx(arg): the callback runs, and its result goes
\* to the caller: values.append(...) of the enclosing instance, or res of
\* parse().  pushed = 1 when the popped character was inserted back first.
Return(cb, r, pushed) ==
    /\ calls' = Fire(cb, r)
    /\ characters' = IF pushed = 1 THEN characters ELSE Tail(characters)
    /\ removed' = Popped(1)
    /\ pushes' = pushes + pushed
    /\ IF ~r.ok
       THEN /\ pc' = "failed"
            /\ out' = [out EXCEPT ![mode] =
                          [st |-> "fail", v |-> NoValue, err |-> r.err]]
            /\ UNCHANGED <<stack, res>>
       ELSE IF Len(stack) = 1
       THEN /\ pc' = "returned"
            /\ res' = r.v
            /\ stack' = <<>>
            /\ UNCHANGED out
       ELSE /\ stack' = [SubSeq(stack, 1, Len(stack) - 1)
                            EXCEPT ![Len(stack) - 1].values = AppendValue(@, r.v)]
            /\ UNCHANGED <<pc, res, out>>
    /\ UNCHANGED <<text, driver, nextId>>

\* while characters: match (self.state, characters.pop(0))
Matching(state) ==
    /\ pc = "parsing"
    /\ characters # <<>>
    /\ Top.state = state

(***************************************************************************)
(* _Parser.parse: one action per case of the match                         *)
(***************************************************************************)
\* case ("initial", " ")
InitialSpace ==
    /\ Matching("initial")
    /\ char = " "
    /\ Goto("initial", <<>>, "")

\* case ("initial", "(")
InitialOpen ==
    /\ Matching("initial")
    /\ char = "("
    /\ Goto("InList", <<>>, "")

\* case (_InList(values), ")")
InListClose ==
    /\ Matching("InList")
    /\ char = ")"
    /\ Return("on_list", on_list(mode, Top.values), 0)

\* the space is put back at the front of the cursor
InListSpaceStuck ==
    /\ Matching("InList")
    /\ char = " "
    /\ removed' = Popped(1)
    /\ pushes' = pushes + 1
    /\ UNCHANGED <<text, driver, pc, characters, stack, res, out, calls, nextId>>

\* case (_InList(values), " ")
InListSpace ==
    /\ Matching("InList")
    /\ char = " "
    /\ Goto("InList", <<>>, "")

\* case (_InList(values), c): the character goes back and a fresh _Parser
\* parses one sub-expression from the same cursor
\* the character is inserted at the front without having been popped
InListChildDuplicated ==
    /\ Matching("InList")
    /\ char \notin {")", " "}
    /\ stack' = Append(stack, NewParser(nextId, Position - 1))
    /\ nextId' = nextId + 1
    /\ characters' = <<char>> \o characters
    /\ pushes' = pushes + 1
    /\ UNCHANGED <<text, driver, pc, res, out, calls, removed>>

InListChild ==
    /\ Matching("InList")
    /\ char \notin {")", " "}
    /\ stack' = Append(stack, NewParser(nextId, Position - 1))
    /\ nextId' = nextId + 1
    /\ removed' = Popped(1)
    /\ pushes' = pushes + 1
    /\ UNCHANGED <<text, driver, pc, characters, res, out, calls>>

\* case ("initial", d) if d in DIGITS
InitialDigit ==
    /\ Matching("initial")
    /\ char \in DIGITS
    /\ Goto("InDigits", <<char>>, "")

\* case (_InDigits(value), d) if d in DIGITS
InDigitsDigit ==
    /\ Matching("InDigits")
    /\ char \in DIGITS
    /\ Goto("InDigits", Append(Top.value, char), "")

\* case (_InDigits(value), " ")
InDigitsSpace ==
    /\ Matching("InDigits")
    /\ char = " "
    /\ Return("on_integer", on_integer(mode, PyInt(Top.value)), 0)

\* case (_InDigits(value), ".")
\* the decimal point is consumed but not kept in the text held
InDigitsDotDropped ==
    /\ Matching("InDigits")
    /\ char = "."
    /\ Goto("InDecimal", Top.value, "")

InDigitsDot ==
    /\ Matching("InDigits")
    /\ char = "."
    /\ Goto("InDecimal", Append(Top.value, "."), "")

\* the ")" that ends the digits is consumed instead of going back
InDigitsCloseConsumed ==
    /\ Matching("InDigits")
    /\ char = ")"
    /\ Return("on_integer", on_integer(mode, PyInt(Top.value)), 0)

\* case (_InDigits(value), ")")
InDigitsClose ==
    /\ Matching("InDigits")
    /\ char = ")"
    /\ Return("on_integer", on_integer(mode, PyInt(Top.value)), 1)

\* case (_InDecimal(value), d) if d in DIGITS
InDecimalDigit ==
    /\ Matching("InDecimal")
    /\ char \in DIGITS
    /\ Goto("InDecimal", Append(Top.value, char), "")

\* case (_InDecimal(value), " ")
InDecimalSpace ==
    /\ Matching("InDecimal")
    /\ char = " "
    /\ Return("on_float", on_float(mode, PyFloat(Top.value)), 0)

\* case (_InDecimal(value), ")")
InDecimalClose ==
    /\ Matching("InDecimal")
    /\ char = ")"
    /\ Return("on_float", on_float(mode, PyFloat(Top.value)), 1)

\* case ("initial", s) if s in SYMBOL_CHARACTERS
InitialSymbol ==
    /\ Matching("initial")
    /\ char \in SYMBOL_CHARACTERS
    /\ Goto("InSymbol", <<char>>, "")

\* case (_InSymbol(value), s) if s in SYMBOL_CHARACTERS
InSymbolChar ==
    /\ Matching("InSymbol")
    /\ char \in SYMBOL_CHARACTERS
    /\ Goto("InSymbol", Append(Top.value, char), "")

\* the symbol case with a boolean production for True and False
InSymbolSpaceBoolean ==
    /\ Matching("InSymbol")
    /\ char = " "
    /\ IF Top.value \in {True, False}
       THEN Return("on_boolean", on_boolean(mode, Top.value = True), 0)
       ELSE Return("on_symbol", on_symbol(mode, Top.value), 0)

\* case (_InSymbol(value), " ")
InSymbolSpace ==
    /\ Matching("InSymbol")
    /\ char = " "
    /\ Return("on_symbol", on_symbol(mode, Top.value), 0)

\* case (_InSymbol(value), ")")
InSymbolClose ==
    /\ Matching("InSymbol")
    /\ char = ")"
    /\ Return("on_symbol", on_symbol(mode, Top.value), 1)

\* case ("initial", "'")
InitialSingleQuote ==
    /\ Matching("initial")
    /\ char = SQ
    /\ Goto("InString", <<>>, SQ)

\* case ("initial", '"')
InitialDoubleQuote ==
    /\ Matching("initial")
    /\ char = DQ
    /\ Goto("InString", <<>>, DQ)

\* case (_InString(value, '"'), '"') | (_InString(value, "'"), "'")
InStringClose ==
    /\ Matching("InString")
    /\ char = Top.quote_type
    /\ Return("on_string", on_string(mode, Top.value), 0)

\* The inner match of the backslash case, on the cursor after the backslash:
\* what characters.pop(0) and the case it selects do.
\*   "pop_empty"   pop(0) of the empty list raises IndexError
\*   "append"      the popped character is appended to value
\*   "msg_empty"   case _: the message reads characters[0] of the empty
\*                 list, which raises IndexError before ValueError is built
\*   "invalid"     case _: ValueError("Unexpected character after backslash")
Escape(quote_type, rest) ==
    IF rest = <<>> THEN "pop_empty"
    ELSE IF Head(rest) = DQ /\ quote_type = DQ THEN "append"
    ELSE IF Head(rest) = SQ /\ quote_type = SQ THEN "append"
    ELSE IF Head(rest) = BS THEN "append"
    ELSE IF Tail(rest) = <<>> THEN "msg_empty"
    ELSE "invalid"

\* case (_InString(value, quote_type), "\\")
InStringEscape ==
    /\ Matching("InString")
    /\ char # Top.quote_type
    /\ char = BS
    /\ LET rest == Tail(characters)
           how == Escape(Top.quote_type, rest)
       IN CASE how = "pop_empty" -> Raise("IndexError", rest, 1)
            [] how = "append" ->
                 /\ stack' = [stack EXCEPT ![Len(stack)] =
                       [@ EXCEPT !.value = Append(@, Head(rest)),
                                 !.eaten = @ \o <<char, Head(rest)>>]]
                 /\ characters' = Tail(rest)
                 /\ removed' = Popped(2)
                 /\ UNCHANGED <<text, driver, pc, res, out, calls, nextId,
                                pushes>>
            [] how = "msg_empty" -> Raise("IndexError", Tail(rest), 2)
            [] how = "invalid" -> Raise("InvalidEscape", Tail(rest), 2)

\* case (_InString(value, quote_type), c)
InStringChar ==
    /\ Matching("InString")
    /\ char \notin {Top.quote_type, BS}
    /\ Goto("InString", Append(Top.value, char), Top.quote_type)

\* The characters some case before the last accepts in a state.
Accepted(state) ==
    CASE state = "initial" ->
            {" ", "(", SQ, DQ} \cup DIGITS \cup SYMBOL_CHARACTERS
      [] state = "InDigits" -> DIGITS \cup {" ", ".", ")"}
      [] state = "InDecimal" -> DIGITS \cup {" ", ")"}
      [] state = "InSymbol" -> SYMBOL_CHARACTERS \cup {" ", ")"}

\* case (state, c): raise ValueError("Unexpected character ...")
UnexpectedCharacter ==
    /\ pc = "parsing"
    /\ characters # <<>>
    /\ Top.state \in {"initial", "InDigits", "InDecimal", "InSymbol"}
    /\ char \notin Accepted(Top.state)
    /\ Raise("UnexpectedCharacter", Tail(characters), 1)

\* the while loop ends: raise ValueError("Unexpected end of input")
EndOfInput ==
    /\ pc = "parsing"
    /\ characters = <<>>
    /\ Raise("UnexpectedEndOfInput", characters, 0)

(***************************************************************************)
(* parse(text, callbacks) and the three drivers                            *)
(***************************************************************************)
\* a test of the cursor that lets trailing spaces pass
RemainingNonSpace(chars) == \E i \in 1..Len(chars) : chars[i] # " "

\* if characters: raise ValueError("Unexpected remaining characters")
Remaining(chars) == chars # <<>>

\* the end of parse(): the test of the cursor, then return res
ParseReturn ==
    /\ pc = "returned"
    /\ IF Remaining(characters)
       THEN /\ pc' = "failed"
            /\ out' = [out EXCEPT ![mode] =
                          [st |-> "fail", v |-> NoValue, err |-> "TrailingInput"]]
       ELSE /\ pc' = "done"
            /\ out' = [out EXCEPT ![mode] =
                          [st |-> "ok", v |-> res, err |-> "none"]]
    /\ UNCHANGED <<text, driver, characters, stack, res, calls, nextId,
                   removed, pushes>>

\* characters = list(text); _Parser(callbacks).parse(characters)
Enter(d) ==
    /\ driver' = d
    /\ pc' = "parsing"
    /\ characters' = text
    /\ stack' = <<NewParser(1, 0)>>
    /\ nextId' = 2
    /\ res' = NoValue
    /\ calls' = <<>>
    /\ removed' = [i \in 1..Len(text) |-> 0]
    /\ pushes' = 0

\* the session goes on to the next driver: eval_lisp, then typecheck_lisp
NextDriver ==
    /\ pc \in {"done", "failed"}
    /\ driver < Len(Drivers)
    /\ Enter(driver + 1)
    /\ UNCHANGED <<text, out>>

(***************************************************************************)
(* The inputs of a session                                                 *)
(***************************************************************************)
\* Every text of less than MaxLen characters over Alphabet, and every text
\* of MaxLen characters over Alphabet without the double quote, which the
\* parser handles as it handles the single quote.
MaxLen == 4

Alphabet == {"(", ")", " ", "1", ".", "+", SQ, DQ, BS}

RECURSIVE Texts(_, _)
Texts(n, alphabet) ==
    IF n = 0 THEN {<<>>}
    ELSE LET shorter == Texts(n - 1, alphabet)
         IN shorter \cup {Append(t, a) : t \in shorter, a \in alphabet}

\* Every list "(" item " " item ... ")" of at most MaxItems of Items.
MaxItems == 3

Items ==
    {<<"1">>,
     <<"1", ".", "5">>,
     <<SQ, "s", SQ>>,
     <<"a", "d", "d">>,
     <<"n", "t", "h">>,
     <<"l", "i", "s", "t">>,
     <<"+">>,
     <<"f", "o", "o">>,
     <<"(", "l", "i", "s", "t", " ", "1", " ", "2", ")">>,
     <<"(", "l", "i", "s", "t", " ", SQ, "s", SQ, ")">>}

RECURSIVE Joined(_)
Joined(n) ==
    IF n = 0 THEN {<<>>}
    ELSE LET shorter == Joined(n - 1)
         IN shorter \cup {IF t = <<>> THEN i ELSE t \o <<" ">> \o i :
                             t \in shorter, i \in Items}

Lists == {<<"(">> \o t \o <<")">> : t \in Joined(MaxItems)}

\* The examples of the doctests, the tests and the specification, and a few
\* more of their kind.
Examples ==
    {<<"(", "f", "i", "r", "s", "t", " ", "(", "l", "i", "s", "t", " ",
       "1", " ", "(", "+", " ", "2", " ", "3", ")", " ", "9", ")", ")">>,
     <<"(", "l", "i", "s", "t", " ", "1", " ", "T", "r", "u", "e", " ", DQ,
       "h", "e", "l", "l", "o", DQ, " ", SQ, "w", "o", "r", "l", "d", SQ,
       " ", "3", ".", "1", "4", ")">>,
     <<"(", "a", "d", "d", " ", "1", " ", "1", ")">>,
     <<"(", "n", "t", "h", " ", "(", "l", "i", "s", "t", " ", "1", " ",
       "(", "+", " ", "2", " ", "3", ")", " ", "9", ")", " ", "1", ")">>,
     <<"(", "n", "t", "h", " ", "(", "l", "i", "s", "t", " ", "1", " ",
       "(", "a", "d", "d", " ", "2", " ", "3", ")", " ", "9", ")", " ",
       "1", ")">>,
     <<"(", "l", "i", "s", "t", " ", SQ, "s", SQ, ")">>,
     <<"(", "l", "i", "s", "t", " ", SQ, "d", SQ, " ", "2", " ", "3", ")">>,
     <<"(", "a", "d", "d", " ", "1", " ", "1">>,
     <<"(", "a", "d", "d", " ", "1", " ", "1", ")", " ", "x">>,
     <<"(", "f", "o", "o", " ", "1", ")">>,
     <<SQ, "a", BS, SQ, "b", SQ>>,
     <<"T", "r", "u", "e", " ">>,
     <<"(", "F", "a", "l", "s", "e", ")">>,
     <<"(", "f", "o", "o", " ", "!", ")">>,
     <<"(", "f", "o", "o", " ", SQ, "a", BS, "n", SQ, ")">>,
     <<"(", "(", "l", "i", "s", "t", " ", "1", ")", " ", "(", "l", "i",
       "s", "t", " ", "1", ")", ")">>,
     <<"(", "l", "i", "s", "t", " ", "(", "1", ")", " ", "(", "1", ".",
       "5", ")", ")">>,
     <<"(", "l", "i", "s", "t", " ", "(", "(", "l", "i", "s", "t", " ",
       "1", ")", ")", ")">>,
     <<DQ, BS, DQ, DQ>>,
     <<DQ, BS, SQ, DQ>>,
     <<SQ, BS, DQ, SQ>>,
     <<DQ, SQ, DQ, " ">>,
     <<"(", DQ, DQ, ")">>,
     <<"(", "n", "t", "h", " ", "(", "l", "i", "s", "t", " ", SQ, "s", SQ,
       ")", " ", "0", ")">>}

Inputs ==
    Texts(MaxLen - 1, Alphabet) \cup Texts(MaxLen, Alphabet \ {DQ})
        \cup Lists \cup Examples

Init ==
    /\ text \in Inputs
    /\ driver = 1
    /\ pc = "parsing"
    /\ characters = text
    /\ stack = <<NewParser(1, 0)>>
    /\ nextId = 2
    /\ res = NoValue
    /\ out = [m \in {"ast", "eval", "typecheck"} |-> NoOutcome]
    /\ calls = <<>>
    /\ removed = [i \in 1..Len(text) |-> 0]
    /\ pushes = 0

Next ==
    \/ InitialSpace
    \/ InitialOpen
    \/ InListClose
    \/ InListSpace
    \/ InListChild
    \/ InitialDigit
    \/ InDigitsDigit
    \/ InDigitsSpace
    \/ InDigitsDot
    \/ InDigitsClose
    \/ InDecimalDigit
    \/ InDecimalSpace
    \/ InDecimalClose
    \/ InitialSymbol
    \/ InSymbolChar
    \/ InSymbolSpace
    \/ InSymbolClose
    \/ InitialSingleQuote
    \/ InitialDoubleQuote
    \/ InStringClose
    \/ InStringEscape
    \/ InStringChar
    \/ UnexpectedCharacter
    \/ EndOfInput
    \/ ParseReturn
    \/ NextDriver

Spec == Init /\ [][Next]_vars

(***************************************************************************)
(* Properties                                                              *)
(***************************************************************************)
Outcome == out[mode]

Fail(kind) == [st |-> "fail", v |-> NoValue, err |-> kind]

\* C1: parse() returns a value only when the cursor is empty once the
\* top-level expression has completed (the outermost _Parser.parse has
\* returned, so no instance is left); if any character remains then, even
\* only spaces, the call fails with TrailingInput and gives no value.
C1_TrailingInput ==
    /\ Outcome.st = "ok" => stack = <<>> /\ characters = <<>> /\ pc = "done"
    /\ (stack = <<>> /\ pc # "returned") =>
          IF characters = <<>>
          THEN pc = "done" /\ Outcome = [st |-> "ok", v |-> res, err |-> "none"]
          ELSE pc = "failed" /\ Outcome = Fail("TrailingInput")

\* the outermost expression completed and only spaces remain
C1_Witness ==
    /\ stack = <<>>
    /\ characters # <<>>
    /\ \A i \in 1..Len(characters) : characters[i] = " "
    /\ Outcome = Fail("TrailingInput")

\* The parser needs a character and the cursor has none: at the test of
\* the while loop, or at the pop after a backslash.
Exhausted ==
    /\ pc = "parsing"
    /\ IF characters = <<>> THEN TRUE
       ELSE Top.state = "InString" /\ characters = <<BS>>

\* C2: whenever the input is exhausted before the top-level expression has
\* completed, in whatever state the innermost instance is, the parse fails
\* with UnexpectedEndOfInput and with no other error.
C2_EndOfInput ==
    [][Exhausted => pc' = "failed" /\ out'[mode] = Fail("UnexpectedEndOfInput")]_vars

(***************************************************************************)
(* The grammar of the specification, as a recogniser: Ends(t, i) is the    *)
(* set of positions just after an expr that starts at position i of t.     *)
(***************************************************************************)
At(t, i) == IF i >= 1 /\ i <= Len(t) THEN t[i] ELSE ""

Run(t, i, class) ==
    {j \in (i + 1)..(Len(t) + 1) : \A k \in i..(j - 1) : t[k] \in class}

IntegerEnds(t, i) == Run(t, i, DIGITS)

FloatEnds(t, i) ==
    UNION {Run(t, j + 1, DIGITS) : j \in {j \in Run(t, i, DIGITS) : At(t, j) = "."}}

SymbolEnds(t, i) == Run(t, i, SYMBOL_CHARACTERS)

RECURSIVE StringScan(_, _, _)
StringScan(t, j, q) ==
    IF j > Len(t) THEN {}
    ELSE IF t[j] = q THEN {j + 1}
    ELSE IF t[j] = BS
    THEN IF At(t, j + 1) \in {q, BS} THEN StringScan(t, j + 2, q) ELSE {}
    ELSE StringScan(t, j + 1, q)

StringEnds(t, i) ==
    IF At(t, i) \in {SQ, DQ} THEN StringScan(t, i + 1, t[i]) ELSE {}

RECURSIVE Ends(_, _)
RECURSIVE AfterItem(_, _)
Ends(t, i) ==
    IF i > Len(t) THEN {}
    ELSE IntegerEnds(t, i) \cup FloatEnds(t, i) \cup SymbolEnds(t, i)
         \cup StringEnds(t, i)
         \cup (IF t[i] = "("
               THEN (IF At(t, i + 1) = ")" THEN {i + 2} ELSE {})
                    \cup UNION {AfterItem(t, j) : j \in Ends(t, i + 1)}
               ELSE {})

AfterItem(t, j) ==
    IF At(t, j) = ")" THEN {j + 1}
    ELSE IF At(t, j) = " " THEN UNION {AfterItem(t, k) : k \in Ends(t, j + 1)}
    ELSE {}

IsExpr(t) == (Len(t) + 1) \in Ends(t, 1)

\* C3: every text that is the textual form of one expression of the grammar,
\* with nothing before or after it, is accepted by parse_ast.
C3_GrammarAccepted ==
    (out["ast"].st # "none" /\ IsExpr(text)) => out["ast"].st = "ok"

\* C4: in InString(v, q) a backslash followed by q or by a backslash appends
\* that character to v and stays in InString with the same q; a backslash
\* followed by any other character fails with InvalidEscape, whatever does
\* or does not follow that character.
C4_Escape ==
    [][(/\ pc = "parsing"
        /\ Len(characters) >= 2
        /\ Top.state = "InString"
        /\ char = BS)
       => IF characters[2] \in {Top.quote_type, BS}
          THEN /\ pc' = "parsing"
               /\ Len(stack') = Len(stack)
               /\ stack'[Len(stack)].state = "InString"
               /\ stack'[Len(stack)].quote_type = Top.quote_type
               /\ stack'[Len(stack)].value = Append(Top.value, characters[2])
          ELSE pc' = "failed" /\ out'[mode] = Fail("InvalidEscape")]_vars

(***************************************************************************)
(* The syntactic units of a text, counted on the text alone: every "(",    *)
(* every opening quote, and every first character of a run of atom         *)
(* characters, outside string literals.                                    *)
(***************************************************************************)
RECURSIVE Units(_, _, _, _)
Units(t, i, q, inAtom) ==
    IF i > Len(t) THEN 0
    ELSE IF q # ""
    THEN (IF t[i] = BS THEN Units(t, i + 2, q, FALSE)
          ELSE IF t[i] = q THEN Units(t, i + 1, "", FALSE)
          ELSE Units(t, i + 1, q, FALSE))
    ELSE IF t[i] = "(" THEN 1 + Units(t, i + 1, "", FALSE)
    ELSE IF t[i] \in {SQ, DQ} THEN 1 + Units(t, i + 1, t[i], FALSE)
    ELSE IF t[i] \in {" ", ")"} THEN Units(t, i + 1, "", FALSE)
    ELSE (IF inAtom THEN 0 ELSE 1) + Units(t, i + 1, "", TRUE)

CountUnits(t) == Units(t, 1, "", FALSE)

CallsOf(id) == {i \in 1..Len(calls) : calls[i].unit = id}

OnStack(id) == \E i \in 1..Len(stack) : stack[i].id = id

\* The callback of the innermost instance was invoked and raised.
CallbackRaised ==
    /\ pc = "failed"
    /\ calls # <<>>
    /\ ~calls[Len(calls)].ret.ok

\* C5: each parser instance invokes exactly one callback, when its unit
\* completes, and returns: an instance that has returned has exactly one
\* invocation, an instance that is still parsing, or that failed to complete
\* its unit, has none (the one exception is the invocation that itself
\* raised), and after a successful parse the invocations are as many as the
\* atoms and lists of the text.
C5_OneCallbackPerUnit ==
    /\ \A id \in 1..(nextId - 1) :
          IF ~OnStack(id) THEN Cardinality(CallsOf(id)) = 1
          ELSE IF CallbackRaised /\ id = Top.id
          THEN CallsOf(id) = {Len(calls)}
          ELSE CallsOf(id) = {}
    /\ pc = "done" => Len(calls) = CountUnits(text)

\* a successful parse of a list that holds a list and an atom
C5_Witness ==
    /\ pc = "done"
    /\ Len(calls) >= 3
    /\ \E i \in 1..Len(calls) : calls[i].cb = "on_list" /\ i < Len(calls)
    /\ \E i \in 1..Len(calls) : calls[i].cb = "on_integer"

ActiveTable ==
    IF mode = "eval" THEN EvalSYMBOL_TABLE ELSE TypecheckSYMBOL_TABLE

\* The innermost instance is about to complete a symbol that the active
\* table does not hold.
UnknownSymbolCompletes ==
    /\ pc = "parsing"
    /\ mode \in {"eval", "typecheck"}
    /\ characters # <<>>
    /\ Top.state = "InSymbol"
    /\ char \in {" ", ")"}
    /\ Top.value \notin DOMAIN ActiveTable

\* C7: in eval and typecheck mode a symbol absent from the active table
\* fails with UnknownSymbol at the step that completes its token, before any
\* later character is consumed, and that is the outcome of the call whatever
\* malformation follows in the text.
C7_UnknownSymbolAtOnce ==
    [][/\ UnknownSymbolCompletes =>
             /\ pc' = "failed"
             /\ out'[mode] = Fail("UnknownSymbol")
             /\ characters' = IF char = ")" THEN characters ELSE Tail(characters)
       /\ \A m \in {"eval", "typecheck"} :
             out[m].st = "fail" => out'[m] = out[m]]_vars

\* an unknown symbol completed in a text whose later part is malformed: the
\* AST parse of the same text failed
C7_Witness ==
    /\ mode \in {"eval", "typecheck"}
    /\ Outcome = Fail("UnknownSymbol")
    /\ out["ast"].st = "fail"
    /\ characters # <<>>

(***************************************************************************)
(* Parse, then fold: the evaluator's callbacks applied to a finished AST,  *)
(* children first and left to right.  An AST str is a string literal when  *)
(* it starts with a quote (AstCallback.on_string gave its repr) and a      *)
(* symbol otherwise.                                                       *)
(***************************************************************************)
RECURSIVE Unescape(_)
Unescape(body) ==
    IF body = <<>> THEN <<>>
    ELSE IF Head(body) = BS
    THEN <<body[2]>> \o Unescape(SubSeq(body, 3, Len(body)))
    ELSE <<Head(body)>> \o Unescape(Tail(body))

\* the str whose repr is s
Unrepr(s) == Unescape(SubSeq(s, 2, Len(s) - 1))

RECURSIVE Fold(_)
RECURSIVE FoldAll(_)
Fold(node) ==
    CASE node.k = "int" -> on_integer("eval", node.n)
      [] node.k = "float" -> on_float("eval", node)
      [] node.k = "str" ->
            IF node.s # <<>> /\ node.s[1] \in {SQ, DQ}
            THEN on_string("eval", Unrepr(node.s))
            ELSE on_symbol("eval", node.s)
      [] node.k = "list" ->
            LET children == FoldAll(node.c)
            IN IF children.ok THEN on_list("eval", children.vs)
               ELSE Raises(children.err)

FoldAll(nodes) ==
    IF nodes = <<>> THEN [ok |-> TRUE, vs |-> <<>>, err |-> "none"]
    ELSE LET first == Fold(Head(nodes))
         IN IF ~first.ok THEN [ok |-> FALSE, vs |-> <<>>, err |-> first.err]
            ELSE LET others == FoldAll(Tail(nodes))
                 IN IF ~others.ok THEN others
                    ELSE [ok |-> TRUE, vs |-> <<first.v>> \o others.vs,
                          err |-> "none"]

AddExample == <<"(", "a", "d", "d", " ", "1", " ", "1", ")">>

NthExample ==
    <<"(", "n", "t", "h", " ", "(", "l", "i", "s", "t", " ", "1", " ", "(",
      "+", " ", "2", " ", "3", ")", " ", "9", ")", " ", "1", ")">>

\* C8: fused parse+eval is parse-then-fold: on every text that parse_ast
\* accepts, eval_lisp succeeds exactly when the fold of that AST with the
\* evaluator's callbacks succeeds, and then with the same value; (add 1 1)
\* gives 2 and (nth (list 1 (+ 2 3) 9) 1) gives 5.
C8_FusedEqualsFold ==
    (out["ast"].st = "ok" /\ out["eval"].st # "none") =>
       LET folded == Fold(out["ast"].v)
       IN /\ (out["eval"].st = "ok") = folded.ok
          /\ folded.ok => out["eval"].v = folded.v
          /\ text = AddExample => out["eval"] = [st |-> "ok", v |-> MkInt(2), err |-> "none"]
          /\ text = NthExample => out["eval"] = [st |-> "ok", v |-> MkInt(5), err |-> "none"]

\* eval_lisp of a nested application has returned its value
C8_Witness ==
    /\ text = NthExample
    /\ out["ast"].st = "ok"
    /\ out["eval"].st = "ok"

\* C9: every symbol the evaluator's table resolves the typechecker's table
\* resolves too: no text on which eval_lisp does not fail with UnknownSymbol
\* makes typecheck_lisp fail with UnknownSymbol.
C9_SameSymbols ==
    (/\ out["eval"].st # "none"
     /\ out["typecheck"].st # "none"
     /\ out["eval"].err # "UnknownSymbol")
    => out["typecheck"].err # "UnknownSymbol"

\* A type descriptor: a class, a list-of alias, or a type-level function.
Descriptor(v) == v.k \in {"type", "alias", "fn"}

\* Invocation i is on_list of the typechecker applying the `list` function
\* to one or more type descriptors.
ListTypeApplied(i) ==
    /\ mode = "typecheck"
    /\ calls[i].cb = "on_list"
    /\ Len(calls[i].values) >= 2
    /\ calls[i].values[1] = MkFn("list_type")
    /\ \A j \in 2..Len(calls[i].values) : Descriptor(calls[i].values[j])

MixedListApplied(i) ==
    /\ ListTypeApplied(i)
    /\ \E j \in 2..Len(calls[i].values) : calls[i].values[j] # calls[i].values[2]

\* C11: typecheck_lisp of a `list` application whose arguments have
\* different descriptors, as in (list 'd' 2 3), completes and returns a
\* descriptor without raising.
C11_MixedListPasses ==
    \A i \in 1..Len(calls) : MixedListApplied(i) => calls[i].ret.ok

\* Invocation i is on_list of the typechecker applying fn to two descriptors.
TypeFunctionApplied(i, fn) ==
    /\ mode = "typecheck"
    /\ calls[i].cb = "on_list"
    /\ Len(calls[i].values) = 3
    /\ calls[i].values[1] = MkFn(fn)
    /\ Descriptor(calls[i].values[2])
    /\ Descriptor(calls[i].values[3])

NthAddExample ==
    <<"(", "n", "t", "h", " ", "(", "l", "i", "s", "t", " ", "1", " ", "(",
      "a", "d", "d", " ", "2", " ", "3", ")", " ", "9", ")", " ", "1", ")">>

\* C12: in typecheck mode (add a b) yields integer exactly when both
\* descriptors are integer and fails with TypeMismatch otherwise; (nth l i)
\* yields d exactly when l is list-of(d) and i is integer and fails with
\* TypeMismatch otherwise; (add 1 1) and (nth (list 1 (add 2 3) 9) 1) both
\* yield integer.
C12_AddNthTypes ==
    /\ \A i \in 1..Len(calls) :
          LET a == calls[i].values[2]
              b == calls[i].values[3]
          IN /\ TypeFunctionApplied(i, "add_type") =>
                   calls[i].ret = IF a = MkType("int") /\ b = MkType("int")
                                  THEN Returns(MkType("int"))
                                  ELSE Raises("AssertionError")
             /\ TypeFunctionApplied(i, "nth_type") =>
                   calls[i].ret = IF a.k = "alias" /\ b = MkType("int")
                                  THEN Returns(a.c[1])
                                  ELSE Raises("AssertionError")
    /\ \A t \in {AddExample, NthAddExample} :
          (text = t /\ out["typecheck"].st # "none") =>
             out["typecheck"] = [st |-> "ok", v |-> MkType("int"), err |-> "none"]

\* nth was applied to a list-of descriptor and an integer, and add to two
\* integers
C12_Witness ==
    /\ text = NthAddExample
    /\ out["typecheck"].st = "ok"
    /\ \E i \in 1..Len(calls) :
          TypeFunctionApplied(i, "nth_type") /\ calls[i].ret.ok
    /\ \E i \in 1..Len(calls) :
          TypeFunctionApplied(i, "add_type") /\ calls[i].ret.ok

\* Invocation i is on_string of the AST builder.
AstString(i) == mode = "ast" /\ calls[i].cb = "on_string"

\* the delimiters of a rendered string: its first and last characters
Delimiters(s) == <<s[1], s[Len(s)]>>

\* C13 as stated: the AST Builder renders every string literal as its quoted
\* source form with the original quote character, a double-quoted literal
\* between double quotes and a single-quoted literal between single quotes.
C13_OriginalQuote ==
    \A i \in 1..Len(calls) :
        AstString(i) =>
            /\ calls[i].ret.ok
            /\ Delimiters(calls[i].ret.v.s) =
                  <<calls[i].quote_type, calls[i].quote_type>>

\* C13: the AST Builder renders every string literal as the repr of its
\* content: between single quotes, unless the content holds a single quote
\* and no double quote and is then between double quotes, whatever quote
\* character the literal was written with; reading the rendering back
\* (delimiters off, escapes undone) gives the content.
C13_ReprQuote ==
    \A i \in 1..Len(calls) :
        AstString(i) =>
            LET content == calls[i].value
                q == IF (\E k \in 1..Len(content) : content[k] = SQ)
                        /\ ~(\E k \in 1..Len(content) : content[k] = DQ)
                     THEN DQ ELSE SQ
            IN /\ calls[i].ret.ok
               /\ calls[i].ret.v.k = "str"
               /\ Len(calls[i].ret.v.s) >= 2
               /\ Delimiters(calls[i].ret.v.s) = <<q, q>>
               /\ Unrepr(calls[i].ret.v.s) = content

\* a single-quoted literal was rendered between double quotes
C13_Witness ==
    /\ pc = "done"
    /\ \E i \in 1..Len(calls) :
          /\ AstString(i)
          /\ calls[i].quote_type = SQ
          /\ Delimiters(calls[i].ret.v.s) = <<DQ, DQ>>

\* the states of an integer, a float or a symbol being read
AtomStates == {"InDigits", "InDecimal", "InSymbol"}

\* the instance at the top of the stack is about to match (state, ch)
About(states, ch) ==
    /\ pc = "parsing"
    /\ characters # <<>>
    /\ Top.state \in states
    /\ char = ch

\* C14: an integer, float or symbol parser terminated by a space consumes the
\* space; terminated by ")" it pushes the ")" back, so that when it returns
\* the first character of the cursor is that ")" and the cursor is otherwise
\* unchanged, and the enclosing InList parser is the one that consumes it and
\* fires on_list.
C14_Terminators ==
    [][/\ About(AtomStates, " ") => characters' = Tail(characters)
       /\ About(AtomStates, ")") =>
             /\ characters' = characters
             /\ Head(characters') = ")"
             /\ (pc' = "parsing" /\ Len(stack) > 1) =>
                   /\ Len(stack') = Len(stack) - 1
                   /\ stack'[Len(stack')].id = stack[Len(stack) - 1].id
                   /\ stack'[Len(stack')].state = "InList"
       /\ About({"InList"}, ")") =>
             /\ characters' = Tail(characters)
             /\ Len(calls') = Len(calls) + 1
             /\ calls'[Len(calls')].cb = "on_list"
             /\ calls'[Len(calls')].unit = Top.id]_vars

\* an atom ended by ")" has just returned to its list, which is about to
\* consume that ")"
C14_Witness ==
    /\ About({"InList"}, ")")
    /\ calls # <<>>
    /\ calls[Len(calls)].state \in AtomStates
    /\ calls[Len(calls)].ret.ok
    /\ text[Position - 1] # " "
    /\ removed[Position] = 1

RECURSIVE SumTo(_, _)
SumTo(f, n) == IF n = 0 THEN 0 ELSE f[n] + SumTo(f, n - 1)

\* removals of characters from the cursor minus push-backs onto it
NetConsumed == SumTo(removed, Len(text)) - pushes

\* C15: in every reachable state the cursor contents are a suffix of the
\* original text; each nested parse consumes a contiguous prefix of the input
\* remaining when it started; on a successful top-level parse the number of
\* characters consumed, removals minus push-backs, is the length of the input.
C15_Cursor ==
    /\ Len(characters) <= Len(text)
    /\ characters = SubSeq(text, Len(text) - Len(characters) + 1, Len(text))
    /\ \A k \in 1..Len(stack) :
          /\ stack[k].start <= Len(text) - Len(characters)
          /\ k > 1 => stack[k - 1].start <= stack[k].start
          /\ (pc = "parsing" /\ k = Len(stack)
                /\ stack[k].state \notin {"InList"}) =>
                stack[k].eaten =
                   SubSeq(text, stack[k].start + 1, Len(text) - Len(characters))
    /\ pc \in {"parsing", "returned", "done"} =>
          NetConsumed = Len(text) - Len(characters)
    /\ pc = "done" => NetConsumed = Len(text)

\* a parse with nested parses and push-backs succeeded
C15_Witness ==
    /\ pc = "done"
    /\ pushes >= 3
    /\ nextId >= 4

\* the instances that enclose the unit of invocation i
Enclosing(i) ==
    {calls[i].path[k] : k \in 1..(Len(calls[i].path) - 1)}

\* the invocations for the children of the list of invocation j
Children(j) ==
    {i \in 1..Len(calls) :
        /\ Len(calls[i].path) > 1
        /\ calls[i].path[Len(calls[i].path) - 1] = calls[j].unit}

\* C16: callbacks fire in post-order, left to right: on_list for a list fires
\* after the callbacks of all its children and before the callback of any
\* later sibling, children in textual order, and on_list receives the
\* children's results in that textual order.
C16_PostOrder ==
    /\ \A i, j \in 1..Len(calls) :
          i # j =>
             ((i < j) <=>
                 IF calls[j].unit \in Enclosing(i) THEN TRUE
                 ELSE IF calls[i].unit \in Enclosing(j) THEN FALSE
                 ELSE calls[i].start < calls[j].start)
    /\ \A j \in 1..Len(calls) :
          calls[j].cb = "on_list" =>
             /\ Len(calls[j].values) = Cardinality(Children(j))
             /\ \A i \in Children(j) :
                   LET n == 1 + Cardinality({h \in Children(j) :
                                               calls[h].start < calls[i].start})
                   IN /\ i < j
                      /\ calls[i].ret.ok
                      /\ calls[j].values[n] = calls[i].ret.v

\* a list of two or more children completed before a later sibling of it,
\* inside a list that completed last
C16_Witness ==
    /\ pc = "done"
    /\ \E j, k \in 1..Len(calls) :
          /\ j < k
          /\ k < Len(calls)
          /\ calls[j].cb = "on_list"
          /\ Cardinality(Children(j)) >= 2
          /\ calls[j].values[1] # calls[j].values[2]
          /\ calls[k].unit \notin Enclosing(j)

\* the characters an instance consumed, without the spaces before its unit
RECURSIVE SkipSpaces(_)
SkipSpaces(seq) ==
    IF seq # <<>> /\ Head(seq) = " " THEN SkipSpaces(Tail(seq)) ELSE seq

\* the instance reading a literal, if any: the one at the top of the stack
Reading(states) ==
    pc = "parsing" /\ stack # <<>> /\ Top.state \in states

\* C17 as stated: in every reachable state an instance in InDigits,
\* InDecimal, InSymbol or InString holds as its text exactly the characters
\* that instance has consumed so far for that literal, in order (for a string,
\* the characters after the opening quote).
C17_HoldsConsumed ==
    /\ Reading(AtomStates) => Top.value = SkipSpaces(Top.eaten)
    /\ Reading({"InString"}) => Top.value = Tail(SkipSpaces(Top.eaten))

\* C17: in every reachable state an instance in InDigits, InDecimal or
\* InSymbol holds as its text exactly the characters it has consumed so far
\* for that literal, in order; an instance in InString holds the characters
\* consumed after the opening quote with every escape replaced by the
\* character it stands for (the backslash is consumed and not held), and
\* keeps the opening quote as its quote type.
C17_HoldsLiteral ==
    /\ Reading(AtomStates) => Top.value = SkipSpaces(Top.eaten)
    /\ Reading({"InString"}) =>
          /\ Top.quote_type = Head(SkipSpaces(Top.eaten))
          /\ Top.value = Unescape(Tail(SkipSpaces(Top.eaten)))

\* an instance in InString has consumed an escape
C17_Witness ==
    /\ Reading({"InString"})
    /\ \E k \in 1..Len(Top.eaten) : Top.eaten[k] = BS
    /\ Len(Top.value) >= 1
    /\ Len(Top.value) < Len(Top.eaten) - 1

\* digit+ "." digit+
FloatToken(s) ==
    \E d \in 2..(Len(s) - 1) :
        /\ s[d] = "."
        /\ \A k \in (1..Len(s)) \ {d} : s[k] \in DIGITS

\* C18: a numeric token is accepted as a float only if it has the form
\* digit+ "." digit+; a token like "1." ended by a space or ")" does not
\* produce a float value.
C18_FloatShape ==
    \A i \in 1..Len(calls) :
        calls[i].cb = "on_float" => FloatToken(calls[i].value)

\* a push-back has left the cursor as it was: a fresh nested instance is
\* about to read the character its list put back, or a list is about to read
\* the ")" its child put back
Pending ==
    /\ pc = "parsing"
    /\ characters # <<>>
    /\ \/ Top.state = "initial" /\ Len(stack) > 1
       \/ Top.state = "InList" /\ char = ")"

\* what is left to do in one parse: zero once it has ended, and otherwise
\* two per character of the cursor, one for the return and one if no
\* push-back is pending
Variant ==
    IF pc \in {"done", "failed"} THEN 0
    ELSE 1 + 2 * Len(characters)
           + (IF pc = "parsing" /\ ~Pending THEN 1 ELSE 0)

\* C19: for every finite input the parse ends, with a value or an error:
\* every loop iteration removes a character from the cursor, a push-back
\* comes with the removal of that same character and is followed by
\* progress, no character is removed from the cursor more than twice, and
\* every step of a parse lowers a bounded variant, so there is no infinite
\* loop and no unbounded recursion.
C19_Terminates ==
    [][driver' = driver =>
          /\ Variant' < Variant
          /\ Variant <= 2 * Len(text) + 2
          /\ Len(stack') <= Len(text) + 1
          /\ \A i \in 1..Len(text) : removed'[i] <= 2
          /\ (pc = "parsing" /\ characters # <<>>) =>
                SumTo(removed', Len(text)) > SumTo(removed, Len(text))
          /\ pushes' > pushes =>
                /\ pushes' = pushes + 1
                /\ characters' = characters
                /\ removed'[Position] = removed[Position] + 1
                /\ pc' = "parsing" => Pending'
          /\ Pending => (Len(characters') < Len(characters) \/ pc' = "failed")
          /\ pc' \in {"done", "failed"} =>
                out'[mode].st = IF pc' = "done" THEN "ok" ELSE "fail"]_vars

\* a parse ended with a value after characters were removed twice
C19_Witness ==
    /\ pc = "done"
    /\ pushes >= 2
    /\ \E i, j \in 1..Len(text) :
          i < j /\ removed[i] = 2 /\ removed[j] = 2 /\ text[j] = ")"

EmptyListText == <<"(", ")">>

\* C20: "()" is a complete unit: on_list fires with the empty sequence,
\* parse_ast of "()" returns the empty sequence, and eval and typecheck of
\* any empty list fail and return no value.
C20_EmptyList ==
    /\ \A i \in 1..Len(calls) :
          (calls[i].cb = "on_list" /\ calls[i].values = <<>>) =>
             /\ mode = "ast" => calls[i].ret = Returns(MkList(<<>>))
             /\ mode # "ast" =>
                   /\ ~calls[i].ret.ok
                   /\ pc = "failed"
                   /\ out[mode].st = "fail"
                   /\ out[mode].v = NoValue
                   /\ res = NoValue
    /\ text = EmptyListText =>
          /\ pc \in {"done", "failed"} =>
                /\ Len(calls) = 1
                /\ calls[1].cb = "on_list"
                /\ calls[1].values = <<>>
          /\ out["ast"].st # "none" =>
                out["ast"] = [st |-> "ok", v |-> MkList(<<>>), err |-> "none"]
          /\ \A m \in {"eval", "typecheck"} :
                out[m].st # "none" => out[m].st = "fail" /\ out[m].v = NoValue

\* "()" went through the three drivers: a value from parse_ast, a failure
\* from eval_lisp and from typecheck_lisp
C20_Witness ==
    /\ mode = "typecheck"
    /\ pc = "failed"
    /\ out["ast"].st = "ok"
    /\ out["eval"].st = "fail"
    /\ calls # <<>>
    /\ calls[Len(calls)].cb = "on_list"
    /\ calls[Len(calls)].values = <<>>
    /\ text = EmptyListText

====
